---------------------------- MODULE Spec2Model ----------------------------
(***************************************************************************)
(* A model of make_paper_slide.py: the placeholder resolver                *)
(* (_pick_placeholders), the slide composer (add_slide), the atomic save   *)
(* (save_atomic) and the command line driver (main).                       *)
(*                                                                         *)
(* A placeholder of the new slide is a Region record                       *)
(*   [kind, top, width, height, text]                                      *)
(* where kind is the name of its PP_PLACEHOLDER type and text says whether *)
(* the shape has a text_frame.  A placeholder is referred to by its        *)
(* position in slide.placeholders (1..Len); None is 0.                     *)
(***************************************************************************)
EXTENDS Integers, Sequences, FiniteSets, TLC

VARIABLES
    pc,           \* position in main / add_slide / save_atomic
    args,         \* the parsed command line (main, lines 160-176)
    fs,           \* the file system: path -> sequence of blocks
    prs,          \* the presentation in memory: [base, slides]
    regions,      \* slide.placeholders of the new slide, in declared order
    title_shape,  \* _pick_placeholders' title (index into regions, 0 = None)
    body_shape,   \* _pick_placeholders' body  (index into regions, 0 = None)
    shapes,       \* the new slide's shapes with their paragraphs
    dest,         \* save_atomic's dest
    tmp_path,     \* save_atomic's tmp_path
    prior,        \* what dest held when save_atomic was entered (history)
    err,          \* the exception in flight / raised to the caller
    report        \* main's before / after / after_check

vars == <<pc, args, fs, prs, regions, title_shape, body_shape, shapes,
          dest, tmp_path, prior, err, report>>

(***************************************************************************)
(* Bounds of the model.                                                    *)
(***************************************************************************)
MaxRegions == 3       \* placeholders per layout in the resolver's inputs
MaxTitleLen == 3      \* freely chosen characters of a title
MaxDeckSlides == 2    \* slides of an existing deck

Tops == {0, 1}
Sizes == {<<1, 2>>, <<2, 1>>, <<2, 2>>}   \* <<width, height>>

None == 0

(***************************************************************************)
(* _pick_placeholders                                                      *)
(***************************************************************************)
TITLE_TYPES == {"TITLE", "CENTER_TITLE", "VERTICAL_TITLE"}

BODY_TYPES == {"BODY", "OBJECT", "VERTICAL_BODY"}

EXCLUDE_AS_BODY == {"TITLE", "CENTER_TITLE", "VERTICAL_TITLE", "SUBTITLE",
                    "DATE", "SLIDE_NUMBER", "FOOTER", "HEADER"}

\* The kinds the layouts of the model use: one of each class of the code's
\* three sets, and PICTURE for every kind that is in none of them.
LayoutKinds == {"TITLE", "BODY", "SUBTITLE", "PICTURE"}

R(kind, top, width, height, text) ==
    [kind |-> kind, top |-> top, width |-> width, height |-> height, text |-> text]

\* A placeholder without a text_frame is never measured by the code; the
\* model gives it one geometry.
Regions ==
    {R(k, t, sz[1], sz[2], TRUE) : k \in LayoutKinds, t \in Tops, sz \in Sizes}
    \cup {R(k, 0, 1, 1, FALSE) : k \in LayoutKinds}

Area(s) == s.width * s.height

\* First pass (lines 45-55): strict by type, in declared order; the first
\* title-like placeholder and the first body-like placeholder.  Every
\* member of slide.placeholders is a placeholder (line 47 skips none), and
\* the pass does not ask for a text_frame.
RECURSIVE FirstPass(_, _, _, _)
FirstPass(phs, i, t, b) ==
    IF i > Len(phs) THEN <<t, b>>
    ELSE LET pht == phs[i].kind
         IN  IF pht \in TITLE_TYPES /\ t = None THEN FirstPass(phs, i + 1, i, b)
             ELSE IF pht \in BODY_TYPES /\ b = None THEN FirstPass(phs, i + 1, t, i)
             ELSE FirstPass(phs, i + 1, t, b)

\* The sort key without its second component: the area no longer breaks a
\* tie of tops.
KeyLessTopOnly(a, b) == a.top < b.top

\* The sort key of line 63, (s.top, -(s.width * s.height)), compared as
\* Python compares tuples.
KeyLess(a, b) ==
    \/ a.top < b.top
    \/ a.top = b.top /\ -Area(a) < -Area(b)

\* sorted(...) of line 62 is stable: an element goes after every element
\* that is not greater than it.  The result is a sequence of indices.
RECURSIVE InsertSorted(_, _, _)
InsertSorted(phs, sorted, i) ==
    IF sorted = <<>> THEN <<i>>
    ELSE IF KeyLess(phs[i], phs[Head(sorted)]) THEN <<i>> \o sorted
    ELSE <<Head(sorted)>> \o InsertSorted(phs, Tail(sorted), i)

RECURSIVE SortedByKey(_, _)
SortedByKey(phs, idxs) ==
    IF idxs = <<>> THEN <<>>
    ELSE InsertSorted(phs, SortedByKey(phs, SubSeq(idxs, 1, Len(idxs) - 1)),
                      idxs[Len(idxs)])

\* The list of line 59 without its hasattr filter: every placeholder.
TextPhsUnfiltered(phs, i) == [j \in 1..(Len(phs) - i + 1) |-> i + j - 1]

\* [ph for ph in slide.placeholders if hasattr(ph, "text_frame")] (line 59)
RECURSIVE TextPhs(_, _)
TextPhs(phs, i) ==
    IF i > Len(phs) THEN <<>>
    ELSE (IF phs[i].text THEN <<i>> ELSE <<>>) \o TextPhs(phs, i + 1)

\* Title fallback (lines 58-64).
TitleFallback(phs, t) ==
    IF t # None THEN t
    ELSE LET text_phs == TextPhs(phs, 1)
         IN  IF text_phs # <<>> THEN SortedByKey(phs, text_phs)[1] ELSE None

\* The candidates of lines 67-75, in declared order.  "ph is title_shape"
\* is the identity of the placeholder, here its position.
RECURSIVE Candidates(_, _, _)
Candidates(phs, t, i) ==
    IF i > Len(phs) THEN <<>>
    ELSE (IF i = t THEN <<>>
          ELSE IF phs[i].kind \in EXCLUDE_AS_BODY THEN <<>>
          ELSE IF phs[i].text THEN <<i>>
          ELSE <<>>) \o Candidates(phs, t, i + 1)

\* A maximum that keeps the last of the largest instead of the first.
RECURSIVE MaxByAreaLast(_, _, _)
MaxByAreaLast(phs, cands, best) ==
    IF cands = <<>> THEN best
    ELSE MaxByAreaLast(phs, Tail(cands),
                       IF Area(phs[Head(cands)]) >= Area(phs[best]) THEN Head(cands) ELSE best)

\* max(candidates, key=area) (line 78): the first of the largest.
RECURSIVE MaxByArea(_, _, _)
MaxByArea(phs, cands, best) ==
    IF cands = <<>> THEN best
    ELSE MaxByArea(phs, Tail(cands),
                   IF Area(phs[Head(cands)]) > Area(phs[best]) THEN Head(cands) ELSE best)

\* Body fallback (lines 66-78).
BodyFallback(phs, t, b) ==
    IF b # None THEN b
    ELSE LET candidates == Candidates(phs, t, 1)
         IN  IF candidates # <<>>
             THEN MaxByArea(phs, Tail(candidates), Head(candidates))
             ELSE None

\* _pick_placeholders(slide): <<title_shape, body_shape>>.
PickPlaceholders(phs) ==
    LET first == FirstPass(phs, 1, None, None)
        t == TitleFallback(phs, first[1])
        b == BodyFallback(phs, t, first[2])
    IN  <<t, b>>

(***************************************************************************)
(* The slide: its shapes and their paragraphs                              *)
(***************************************************************************)
Para(text, size, level) == [text |-> text, size |-> size, level |-> level]

\* A new text frame holds one empty paragraph.
EmptyFrame == <<Para("", 0, 0)>>

\* The shape of placeholder i of the new slide; a placeholder without a
\* text_frame has no paragraphs.
PlaceholderShape(phs, i) ==
    [ph |-> i, box |-> <<>>, paras |-> IF phs[i].text THEN EmptyFrame ELSE <<>>]

PlaceholderShapes(phs) == [i \in 1..Len(phs) |-> PlaceholderShape(phs, i)]

\* slide.shapes.add_textbox(left, top, width, height), in tenths of an inch.
Textbox(box, paras) == [ph |-> None, box |-> box, paras |-> paras]

TitleBox == <<6, 3, 90, 9>>
BodyBox == <<6, 14, 67, 50>>
NextBox == <<6, 62, 90, 10>>

\* title or "(title pending)" (lines 99, 108)
TitleText(title) == IF title # "" THEN title ELSE "(title pending)"

\* shape.text = t (line 99) / tf.text = t (line 108), then
\* paragraphs[0].font.size = Pt(32): one paragraph holding t.
TitleParas(title) == <<Para(TitleText(title), 32, 0)>>

\* text_frame.clear() (line 114): all paragraphs but the first are removed
\* and the first loses its text.
ClearFrame(paras) == <<[paras[1] EXCEPT !.text = ""]>>

\* Line 1 (lines 120-122).
LinkLine(link) == IF link # "" THEN "Link: " \o link ELSE "Link: (n/a)"

\* The loop without its "if val": a label is written even with no value.
RECURSIVE LabelParasAlways(_)
LabelParasAlways(pairs) ==
    IF pairs = <<>> THEN <<>>
    ELSE <<Para(Head(pairs)[1] \o ": " \o Head(pairs)[2], 14, 1)>>
         \o LabelParasAlways(Tail(pairs))

\* The loop of lines 125-130 over [(rel_label, reason), (app_label, usage)].
RECURSIVE LabelParas(_)
LabelParas(pairs) ==
    IF pairs = <<>> THEN <<>>
    ELSE LET label == Head(pairs)[1]
             val == Head(pairs)[2]
         IN  (IF val # "" THEN <<Para(label \o ": " \o val, 14, 1)>> ELSE <<>>)
             \o LabelParas(Tail(pairs))

\* The body text frame after lines 120-130, from the frame body_tf.
FillBody(body_tf, a) ==
    <<[body_tf[1] EXCEPT !.text = LinkLine(a.link), !.size = 14]>>
    \o SubSeq(body_tf, 2, Len(body_tf))
    \o LabelParas(<<<<a.rel_label, a.reason>>, <<a.app_label, a.usage>>>>)

\* The footer helper box (lines 133-138).
NextActionParas == <<Para("Next Action:", 0, 0), Para("* ", 0, 1)>>

\* hasattr(shape, "text_frame") of a picked shape (lines 98, 112).
HasTextFrame(phs, i) == i # None /\ phs[i].text

(***************************************************************************)
(* add_slide, step by step                                                 *)
(***************************************************************************)
\* line 95
Pick ==
    /\ pc = "pick"
    /\ LET picked == PickPlaceholders(regions)
       IN  /\ title_shape' = picked[1]
           /\ body_shape' = picked[2]
    /\ pc' = "title"
    /\ UNCHANGED <<args, fs, prs, regions, shapes, dest, tmp_path, prior, err, report>>

\* lines 98-109
WriteTitle ==
    /\ pc = "title"
    /\ shapes' = IF HasTextFrame(regions, title_shape)
                 THEN [shapes EXCEPT ![title_shape].paras = TitleParas(args.title)]
                 ELSE Append(shapes, Textbox(TitleBox, TitleParas(args.title)))
    /\ pc' = "body"
    /\ UNCHANGED <<args, fs, prs, regions, title_shape, body_shape, dest, tmp_path,
                   prior, err, report>>

\* lines 112-130
WriteBody ==
    /\ pc = "body"
    /\ shapes' = IF HasTextFrame(regions, body_shape)
                 THEN [shapes EXCEPT ![body_shape].paras =
                           FillBody(ClearFrame(shapes[body_shape].paras), args)]
                 ELSE Append(shapes, Textbox(BodyBox, FillBody(EmptyFrame, args)))
    /\ pc' = "next"
    /\ UNCHANGED <<args, fs, prs, regions, title_shape, body_shape, dest, tmp_path,
                   prior, err, report>>

\* lines 133-138; add_slide returns to main.
NextAction ==
    /\ pc = "next"
    /\ shapes' = Append(shapes, Textbox(NextBox, NextActionParas))
    /\ pc' = "added"
    /\ UNCHANGED <<args, fs, prs, regions, title_shape, body_shape, dest, tmp_path,
                   prior, err, report>>

(***************************************************************************)
(* Paths, files and documents                                              *)
(***************************************************************************)
\* A pathlib.Path: its parent directory, its stem and its suffix.  The
\* empty string given for --deck or --theme is NoPath.
Path(parent, stem, suffix) == [parent |-> parent, stem |-> stem, suffix |-> suffix]

NoPath == Path("", "", "")
DeckPath == Path("decks", "deck", ".pptx")
ThemePath == Path("themes", "theme", ".pptx")
OutDir == "papers_slides"

\* A saved document is a sequence of blocks: a header, one block per slide
\* and a trailer.  A file that lacks the trailer is partly written.
Serialize(slides) == <<"hdr">> \o slides \o <<"eof">>

IsDocument(blocks) ==
    /\ Len(blocks) >= 2
    /\ blocks[1] = "hdr"
    /\ blocks[Len(blocks)] = "eof"

\* Presentation(path) on a well-formed file: its slides.
Slides(blocks) == SubSeq(blocks, 2, Len(blocks) - 1)

Exists(files, path) == path \in DOMAIN files

\* What a reader of path sees.
Absent == <<"ENOENT">>
ReadFile(files, path) == IF Exists(files, path) THEN files[path] ELSE Absent

WriteFile(files, path, blocks) ==
    [q \in DOMAIN files \cup {path} |-> IF q = path THEN blocks ELSE files[q]]

Unlink(files, path) == [q \in DOMAIN files \ {path} |-> files[q]]

\* os.replace(src, dst) (line 150): one step of the file system.
Replace(files, src, dst) == Unlink(WriteFile(files, dst, files[src]), src)

\* The layouts of the presentations of the model (prs.slide_layouts).
BlankLayouts ==
    << <<R("CENTER_TITLE", 1, 2, 1, TRUE), R("SUBTITLE", 2, 2, 1, TRUE)>>,
       <<R("TITLE", 0, 2, 1, TRUE), R("OBJECT", 1, 2, 2, TRUE)>>,
       <<>> >>

ThemeLayouts ==
    << <<R("BODY", 0, 2, 2, TRUE)>>,
       <<R("PICTURE", 1, 2, 2, TRUE), R("PICTURE", 0, 2, 1, TRUE)>>,
       <<R("TITLE", 0, 1, 1, FALSE), R("PICTURE", 0, 2, 2, FALSE)>>,
       <<R("SUBTITLE", 0, 2, 1, TRUE), R("OBJECT", 1, 1, 1, FALSE)>> >>

SlideLayouts(base) == IF base = "blank" THEN BlankLayouts ELSE ThemeLayouts

(***************************************************************************)
(* The output file name (main, lines 222-224)                              *)
(***************************************************************************)
MaxNameLen == 80

\* str.isalnum() on the characters the model uses.
AlnumChars == {"A", "B", "T", "e", "s", "t", "a", "p", "r", "7"}
IsAlnum(c) == c \in AlnumChars

\* The characters str.strip() removes.
IsSpace(c) == c \in {" ", "\t", "\n"}

RECURSIVE LStrip(_)
LStrip(s) == IF s # "" /\ IsSpace(Head(s)) THEN LStrip(Tail(s)) ELSE s

RECURSIVE RStrip(_)
RStrip(s) ==
    IF s # "" /\ IsSpace(SubSeq(s, Len(s), Len(s)))
    THEN RStrip(SubSeq(s, 1, Len(s) - 1))
    ELSE s

Strip(s) == RStrip(LStrip(s))

\* c if c.isalnum() or c in (" ", "_", "-") else "_"
SafeChar(c) == IF IsAlnum(c) \/ c \in {" ", "_", "-"} THEN c ELSE "_"

RECURSIVE JoinSafe(_)
JoinSafe(s) == IF s = "" THEN "" ELSE SafeChar(Head(s)) \o JoinSafe(Tail(s))

\* No truncation at all.
TruncateNone(s, n) == s

\* s[:n]
Truncate(s, n) == IF Len(s) > n THEN SubSeq(s, 1, n) ELSE s

\* lines 222-223
SafeName(title) ==
    LET safe_name == IF Strip(title) # "" THEN title ELSE "paper"
    IN  Truncate(JoinSafe(safe_name), MaxNameLen)

\* line 224
OutPath(outdir, title) == Path(outdir, SafeName(title), ".pptx")

\* tempfile.NamedTemporaryFile(prefix=dest.stem + "_", suffix=".pptx",
\* dir=dest.parent) (line 144): a name no file has.
TmpPath(d) == Path(d.parent, d.stem \o "_" \o "tmp0", ".pptx")

(***************************************************************************)
(* main                                                                    *)
(***************************************************************************)
\* lines 178-188: existing deck > theme > blank, and before.
BaseOf(a, files) ==
    IF a.deck # NoPath /\ Exists(files, a.deck) THEN "deck"
    ELSE IF a.theme # NoPath /\ Exists(files, a.theme) THEN "theme"
    ELSE "blank"

Load ==
    /\ pc = "load"
    /\ LET base == BaseOf(args, fs)
           slides == IF base = "deck" THEN Slides(fs[args.deck])
                     ELSE IF base = "theme" THEN Slides(fs[args.theme])
                     ELSE <<>>
       IN  /\ prs' = [base |-> base, slides |-> slides]
           /\ report' = [report EXCEPT !.before = Len(slides)]
    /\ pc' = "add"
    /\ UNCHANGED <<args, fs, regions, title_shape, body_shape, shapes, dest,
                   tmp_path, prior, err>>

\* add_slide, lines 86-92: the layout (layout 0 for an invalid index) and
\* the new slide with the layout's placeholders.
LayoutAt(layouts, layout_index) ==
    IF layout_index \in 0..(Len(layouts) - 1)
    THEN layouts[layout_index + 1]
    ELSE layouts[1]

AddSlide ==
    /\ pc = "add"
    /\ regions' = LayoutAt(SlideLayouts(prs.base), args.layout)
    /\ shapes' = PlaceholderShapes(regions')
    /\ prs' = [prs EXCEPT !.slides = Append(@, "new")]
    /\ pc' = "pick"
    /\ UNCHANGED <<args, fs, title_shape, body_shape, dest, tmp_path, prior, err,
                   report>>

\* A destination that ignores --deck.
DestOfOutdir(a) == OutPath(a.outdir, a.title)

\* lines 199-204 and 219-225: after, and where to save.
DestOf(a) == IF a.deck # NoPath THEN a.deck ELSE OutPath(a.outdir, a.title)

ChooseDest ==
    /\ pc = "added"
    /\ report' = [report EXCEPT !.after = Len(prs.slides)]
    /\ dest' = DestOf(args)
    /\ pc' = "save"
    /\ UNCHANGED <<args, fs, prs, regions, title_shape, body_shape, shapes,
                   tmp_path, prior, err>>

(***************************************************************************)
(* save_atomic                                                             *)
(***************************************************************************)
\* The exception in flight: e of line 151, and the exception that was being
\* handled when e was raised again (its __context__).
NoError == [e |-> "none", context |-> "none"]
Raised(what) == [e |-> what, context |-> "none"]

\* lines 143-145: the temporary file, created empty beside dest.
CreateTmp ==
    /\ pc = "save"
    /\ tmp_path' = TmpPath(dest)
    /\ fs' = WriteFile(fs, tmp_path', <<>>)
    /\ prior' = ReadFile(fs, dest)
    /\ pc' = "write"
    /\ UNCHANGED <<args, prs, regions, title_shape, body_shape, shapes, dest, err,
                   report>>

\* Saving straight onto the destination.
SaveTargetDest == dest

\* Where prs.save(path) writes (line 147).
SaveTarget == tmp_path

\* prs.save (line 147) writes the document block by block; opening the
\* target for writing empties whatever document it held.
WriteBlock ==
    /\ pc = "write"
    /\ LET doc == Serialize(prs.slides)
           written == ReadFile(fs, SaveTarget)
           now == IF written = Absent \/ IsDocument(written) THEN <<>> ELSE written
           next == Append(now, doc[Len(now) + 1])
       IN  /\ fs' = WriteFile(fs, SaveTarget, next)
           /\ pc' = IF next = doc THEN "replace" ELSE "write"
    /\ UNCHANGED <<args, prs, regions, title_shape, body_shape, shapes, dest,
                   tmp_path, prior, err, report>>

\* prs.save raises partway (line 147 -> line 151).
WriteFail ==
    /\ pc = "write"
    /\ err' = Raised("write")
    /\ pc' = "cleanup"
    /\ UNCHANGED <<args, fs, prs, regions, title_shape, body_shape, shapes, dest,
                   tmp_path, prior, report>>

\* line 150
ReplaceOk ==
    /\ pc = "replace"
    /\ fs' = Replace(fs, tmp_path, dest)
    /\ pc' = "saved"
    /\ UNCHANGED <<args, prs, regions, title_shape, body_shape, shapes, dest,
                   tmp_path, prior, err, report>>

\* os.replace raises (line 150 -> line 151).
ReplaceFail ==
    /\ pc = "replace"
    /\ err' = Raised("replace")
    /\ pc' = "cleanup"
    /\ UNCHANGED <<args, fs, prs, regions, title_shape, body_shape, shapes, dest,
                   tmp_path, prior, report>>

\* A handler that raises e without removing the temporary file.
CleanupSkipped ==
    /\ pc = "cleanup"
    /\ pc' = "raised"
    /\ UNCHANGED <<args, fs, prs, regions, title_shape, body_shape, shapes, dest,
                   tmp_path, prior, err, report>>

\* lines 152-156: the temporary file is removed if it exists, and e is
\* raised.
CleanupOk ==
    /\ pc = "cleanup"
    /\ fs' = IF Exists(fs, tmp_path) THEN Unlink(fs, tmp_path) ELSE fs
    /\ pc' = "raised"
    /\ UNCHANGED <<args, prs, regions, title_shape, body_shape, shapes, dest,
                   tmp_path, prior, err, report>>

\* lines 152-156 when tmp_path.unlink() itself raises: the finally clause
\* raises e all the same, and the file stays.
CleanupFail ==
    /\ pc = "cleanup"
    /\ Exists(fs, tmp_path)
    /\ err' = [err EXCEPT !.context = "unlink"]
    /\ pc' = "raised"
    /\ UNCHANGED <<args, fs, prs, regions, title_shape, body_shape, shapes, dest,
                   tmp_path, prior, report>>

\* main, lines 205-217 (the deck is reopened) and 226-227.
Finish ==
    /\ pc = "saved"
    /\ report' = IF args.deck # NoPath
                 THEN [report EXCEPT !.after_check =
                          IF IsDocument(ReadFile(fs, dest))
                          THEN Len(Slides(ReadFile(fs, dest)))
                          ELSE -1]
                 ELSE report
    /\ pc' = "done"
    /\ UNCHANGED <<args, fs, prs, regions, title_shape, body_shape, shapes, dest,
                   tmp_path, prior, err>>

(***************************************************************************)
(* Initial states and specifications                                       *)
(***************************************************************************)
MaxLayoutIndex == 4   \* --layout is drawn from 0..MaxLayoutIndex

Args(title, link, reason, usage, rel_label, app_label, deck, theme, layout) ==
    [title |-> title, link |-> link, reason |-> reason, usage |-> usage,
     rel_label |-> rel_label, app_label |-> app_label, outdir |-> OutDir,
     deck |-> deck, theme |-> theme, layout |-> layout]

OldSlides(k) == [i \in 1..k |-> "old"]

\* The file system holding the given <<path, content>> entries that exist.
MakeFs(entries) ==
    LET present == {e \in entries : e[2] # Absent}
    IN  [q \in {e[1] : e \in present} |-> (CHOOSE e \in present : e[1] = q)[2]]

\* The state in which main, add_slide or _pick_placeholders starts.
Start(at, a, files, p, phs) ==
    /\ pc = at
    /\ args = a
    /\ fs = files
    /\ prs = p
    /\ regions = phs
    /\ shapes = PlaceholderShapes(phs)
    /\ title_shape = None
    /\ body_shape = None
    /\ dest = NoPath
    /\ tmp_path = NoPath
    /\ prior = Absent
    /\ err = NoError
    /\ report = [before |-> 0, after |-> 0, after_check |-> 0]

NoPrs == [base |-> "blank", slides |-> <<>>]

\* main, from the command line and the files it finds.
Init ==
    \E title \in {"", "A/B", "  "}, link \in {"", "https://x"},
       deck \in {NoPath, DeckPath}, theme \in {NoPath, ThemePath},
       layout \in 0..MaxLayoutIndex,
       deckFile \in {Absent} \cup {Serialize(OldSlides(k)) : k \in 0..MaxDeckSlides},
       themeFile \in {Absent, Serialize(<<>>)},
       outFile \in {Absent, Serialize(<<"old">>)} :
        /\ deck = NoPath => deckFile = Absent
        /\ theme = NoPath => themeFile = Absent
        /\ deck # NoPath => outFile = Absent
        /\ LET a == Args(title, link, "Y", "Z", "Relevance", "Application",
                         deck, theme, layout)
           IN  Start("load", a,
                     MakeFs({<<DeckPath, deckFile>>, <<ThemePath, themeFile>>,
                             <<OutPath(OutDir, title), outFile>>}),
                     NoPrs, <<>>)

Next ==
    \/ Load
    \/ AddSlide
    \/ Pick
    \/ WriteTitle
    \/ WriteBody
    \/ NextAction
    \/ ChooseDest
    \/ CreateTmp
    \/ WriteBlock
    \/ WriteFail
    \/ ReplaceOk
    \/ ReplaceFail
    \/ CleanupOk
    \/ CleanupFail
    \/ Finish

Spec == Init /\ [][Next]_vars

\* _pick_placeholders on every sequence of at most MaxRegions regions.
InitResolve ==
    \E n \in 0..MaxRegions : \E phs \in [1..n -> Regions] :
        Start("pick", Args("T", "", "", "", "Relevance", "Application",
                           NoPath, NoPath, 1),
              MakeFs({}), [base |-> "blank", slides |-> <<"new">>], phs)

NextResolve == Pick

SpecResolve == InitResolve /\ [][NextResolve]_vars

\* add_slide on the layouts of a blank presentation and of a theme.
InitSlide ==
    \E base \in {"blank", "theme"}, layout \in 0..MaxLayoutIndex,
       title \in {"", "T"}, link \in {"", "https://x"}, reason \in {"", "Y"},
       usage \in {"", "Z"}, rel_label \in {"Relevance", ""},
       app_label \in {"Application", "Use"} :
        Start("add",
              Args(title, link, reason, usage, rel_label, app_label, NoPath,
                   IF base = "theme" THEN ThemePath ELSE NoPath, layout),
              MakeFs({<<ThemePath, IF base = "theme" THEN Serialize(<<>>) ELSE Absent>>}),
              [base |-> base, slides |-> <<>>], <<>>)

NextSlide ==
    \/ AddSlide
    \/ Pick
    \/ WriteTitle
    \/ WriteBody
    \/ NextAction

SpecSlide == InitSlide /\ [][NextSlide]_vars

\* The titles of the model: up to MaxTitleLen free characters, then a run
\* of one character that takes the title up to and past MaxNameLen.
TitleChars == {"A", " ", "_", "-", "/", "\t"}

RECURSIVE StringsUpTo(_, _)
StringsUpTo(S, n) ==
    IF n = 0 THEN {""}
    ELSE LET shorter == StringsUpTo(S, n - 1)
         IN  shorter \cup {s \o c : s \in {t \in shorter : Len(t) = n - 1}, c \in S}

RECURSIVE Repeat(_, _)
Repeat(c, n) == IF n = 0 THEN "" ELSE c \o Repeat(c, n - 1)

Titles ==
    {"A/B: Test?"}
    \cup {s \o Repeat(c, n) : s \in StringsUpTo(TitleChars, MaxTitleLen),
                             c \in {"A", "/", " "},
                             n \in {0, MaxNameLen - 1, MaxNameLen}}

\* main up to the choice of the destination, on every title of the model.
InitName ==
    \E title \in Titles, deck \in {NoPath, DeckPath} :
        Start("load",
              Args(title, "", "", "", "Relevance", "Application", deck, NoPath, 1),
              MakeFs({}), NoPrs, <<>>)

NextName ==
    \/ Load
    \/ AddSlide
    \/ Pick
    \/ WriteTitle
    \/ WriteBody
    \/ NextAction
    \/ ChooseDest

SpecName == InitName /\ [][NextName]_vars

(***************************************************************************)
(* The resolver's claims (under SpecResolve)                               *)
(***************************************************************************)
Picked == pc = "title"

Idx == 1..Len(regions)
TextIdx == {i \in Idx : regions[i].text}
NoTitleKind == \A i \in Idx : regions[i].kind \notin TITLE_TYPES
NoBodyKind == \A i \in Idx : regions[i].kind \notin BODY_TYPES

\* The first region, in declared order, whose kind is in kinds; None if
\* there is none.
FirstOfKind(kinds) ==
    LET S == {i \in Idx : regions[i].kind \in kinds}
    IN  IF S = {} THEN None ELSE CHOOSE i \in S : \A j \in S : i <= j

\* C1: the pair returned by _pick_placeholders never names one region as
\* both title and body: when both are present they are different regions.
C1_TitleBodyDistinct ==
    Picked /\ title_shape # None /\ body_shape # None => title_shape # body_shape

\* C2: when no region supports text, whatever the kinds, _pick_placeholders
\* returns title absent and body absent.
C2_NoTextBothAbsent ==
    Picked /\ TextIdx = {} => title_shape = None /\ body_shape = None

\* C2, amended: when no region supports text, the title is the first region
\* of a title-like kind and the body the first region of a body-like kind,
\* each absent when there is no such region; neither fallback picks
\* anything.
C2_NoTextPicksByKindOnly ==
    Picked /\ TextIdx = {} =>
        /\ title_shape = FirstOfKind(TITLE_TYPES)
        /\ body_shape = FirstOfKind(BODY_TYPES)

\* A layout of two regions without text, the second tagged BODY: the body
\* is that region although it cannot hold text, the title is absent.
C2_Witness ==
    /\ Picked
    /\ Len(regions) = 2
    /\ TextIdx = {}
    /\ regions[1].kind = "PICTURE"
    /\ regions[2].kind = "BODY"
    /\ title_shape = None
    /\ body_shape = 2

\* C8: with no title-like kind and at least one text-capable region, the
\* title is a text-capable region of smallest top; among those of that top
\* one of largest area; among those still tied the first declared.  With no
\* tagged region and exactly two text-capable regions at different tops,
\* the upper one is the title and the other one the body.
C8_TitleGeometricFallback ==
    /\ Picked /\ NoTitleKind /\ TextIdx # {} =>
        /\ title_shape \in TextIdx
        /\ \A j \in TextIdx :
            LET t == regions[title_shape]
                r == regions[j]
            IN  /\ t.top <= r.top
                /\ t.top = r.top => t.width * t.height >= r.width * r.height
                /\ (t.top = r.top /\ t.width * t.height = r.width * r.height)
                       => title_shape <= j
    /\ \A i, j \in TextIdx :
           /\ Picked
           /\ \A k \in Idx : regions[k].kind = "PICTURE"
           /\ TextIdx = {i, j}
           /\ regions[i].top < regions[j].top
           => title_shape = i /\ body_shape = j

\* Three untagged text regions: the second and third share the smallest
\* top, the third is the larger, and the title is the third.
C8_Witness ==
    /\ Picked
    /\ Len(regions) = 3
    /\ \A k \in Idx : regions[k].kind = "PICTURE" /\ regions[k].text
    /\ regions[1].top = 1 /\ regions[2].top = 0 /\ regions[3].top = 0
    /\ Area(regions[2]) < Area(regions[3])
    /\ title_shape = 3
    /\ body_shape # None

\* C9: when no region has a body-like kind, the body is the region of
\* largest area among the text-capable regions that are not the title and
\* whose kind is not excluded, the first declared among the largest; absent
\* when there is no such region.
C9_BodyGeometricFallback ==
    Picked /\ NoBodyKind =>
        LET C == {i \in TextIdx : i # title_shape /\ regions[i].kind \notin EXCLUDE_AS_BODY}
        IN  IF C = {} THEN body_shape = None
            ELSE /\ body_shape \in C
                 /\ \A j \in C :
                     LET b == regions[body_shape]
                         r == regions[j]
                     IN  /\ b.width * b.height >= r.width * r.height
                         /\ b.width * b.height = r.width * r.height => body_shape <= j

\* A title and two untagged candidates of equal area and different shape:
\* the first declared of the two is the body.
C9_Witness ==
    /\ Picked
    /\ Len(regions) = 3
    /\ regions[1].kind = "PICTURE" /\ regions[1].text
    /\ regions[2].kind = "TITLE" /\ regions[2].text
    /\ regions[3].kind = "PICTURE" /\ regions[3].text
    /\ regions[1].width # regions[3].width
    /\ Area(regions[1]) = Area(regions[3])
    /\ title_shape = 2
    /\ body_shape = 1

(***************************************************************************)
(* The composer's claims (under SpecSlide)                                 *)
(***************************************************************************)
Texts(paras) == [i \in 1..Len(paras) |-> paras[i].text]

ExpectedLines(a) ==
    <<IF a.link = "" THEN "Link: (n/a)" ELSE "Link: " \o a.link>>
    \o (IF a.reason = "" THEN <<>> ELSE <<a.rel_label \o ": " \o a.reason>>)
    \o (IF a.usage = "" THEN <<>> ELSE <<a.app_label \o ": " \o a.usage>>)

BodyInPlaceholder == body_shape # None /\ regions[body_shape].text

\* The shapes that carry the body: the resolved placeholder, or else the
\* box injected at the body position.
BodyCarriers ==
    {i \in 1..Len(shapes) :
        IF BodyInPlaceholder THEN i = body_shape ELSE shapes[i].box = BodyBox}

\* C7: the body text written by add_slide is exactly the link line, then
\* the relevance line if reason is non-empty, then the application line if
\* usage is non-empty, whether the body is a placeholder or an injected box.
C7_BodyLines ==
    pc \in {"next", "added"} =>
        /\ Cardinality(BodyCarriers) = 1
        /\ \A i \in BodyCarriers : Texts(shapes[i].paras) = ExpectedLines(args)

\* The composer's example, written into a resolved body placeholder that is
\* not the title: the empty reason leaves no "Relevance:" line.
C7_Witness ==
    /\ pc = "added"
    /\ args.link = "https://x" /\ args.reason = "" /\ args.usage = "Z"
    /\ args.rel_label = "Relevance" /\ args.app_label = "Application"
    /\ BodyInPlaceholder
    /\ title_shape # body_shape
    /\ Texts(shapes[body_shape].paras) = <<"Link: https://x", "Application: Z">>

\* C10: when add_slide has finished, the title text (or "(title pending)")
\* is still held by a shape of the new slide.
C10_TitleTextKept ==
    pc = "added" =>
        \E i \in 1..Len(shapes) : \E k \in 1..Len(shapes[i].paras) :
            shapes[i].paras[k].text =
                (IF args.title = "" THEN "(title pending)" ELSE args.title)

(***************************************************************************)
(* The claims about save_atomic and main (under Spec)                      *)
(***************************************************************************)
NewDocument == Serialize(prs.slides)

\* C3: when save_atomic has failed, the destination holds what it held
\* before, no temporary file remains, and the error raised is the original
\* failure.
C3_FailedSaveLeavesNoTmp ==
    pc = "raised" =>
        /\ ReadFile(fs, dest) = prior
        /\ ~Exists(fs, tmp_path)
        /\ err.e \in {"write", "replace"}

\* C3, amended: when save_atomic has failed, the destination holds what it
\* held before and the error raised is the original failure; the temporary
\* file remains only if removing it failed as well.
C3_FailedSaveKeepsDest ==
    pc = "raised" =>
        /\ ReadFile(fs, dest) = prior
        /\ err.e \in {"write", "replace"}
        /\ Exists(fs, tmp_path) <=> err.context = "unlink"

\* A write that failed over an existing destination, with the temporary
\* file removed.
C3_Witness ==
    /\ pc = "raised"
    /\ err = Raised("write")
    /\ prior # Absent
    /\ ReadFile(fs, dest) = prior
    /\ ~Exists(fs, tmp_path)

\* C4: during save_atomic a reader of the destination sees the complete
\* prior content or the complete new document; no path other than the
\* temporary one is written except the destination, in the replace step,
\* after the temporary file holds the whole document.
C4_DestNeverPartial ==
    /\ [](pc \in {"write", "replace", "cleanup", "raised", "saved", "done"}
            => ReadFile(fs, dest) \in {prior, NewDocument})
    /\ [][\A p \in (DOMAIN fs \cup DOMAIN fs') \ {tmp_path'} :
            ReadFile(fs', p) # ReadFile(fs, p) =>
                /\ pc = "replace"
                /\ p = dest
                /\ fs[tmp_path] = NewDocument
                /\ fs'[p] = NewDocument]_vars

\* The temporary file partly written while the destination still holds its
\* prior document.
C4_Witness ==
    /\ pc = "write"
    /\ Len(fs[tmp_path]) >= 2
    /\ ~IsDocument(fs[tmp_path])
    /\ IsDocument(prior)
    /\ ReadFile(fs, dest) = prior

DeckGiven == args.deck # NoPath
Chosen == pc \in {"save", "write", "replace", "cleanup", "raised", "saved", "done"}

\* C5: if --deck is an existing file the result is saved to that path; in
\* every other case (no --deck, or a --deck that does not exist) it is saved
\* under <outdir>/<name>.pptx, not at the --deck path.
C5_DestByDeckExists ==
    Chosen =>
        IF prs.base = "deck"
        THEN dest = args.deck
        ELSE dest.parent = args.outdir /\ dest.suffix = ".pptx" /\ dest # args.deck

\* C5, amended: the base is the deck if --deck is an existing file, else the
\* theme if it exists, else a blank document; the result is saved to the
\* --deck path whenever --deck is given, existing or not, and under
\* <outdir>/<name>.pptx only when no --deck is given.  A finished run leaves
\* the base's slides plus the new one at the destination.
C5_DestByDeckGiven ==
    /\ pc = "save" =>
        prs.base = (IF DeckGiven /\ args.deck \in DOMAIN fs THEN "deck"
                    ELSE IF args.theme # NoPath /\ args.theme \in DOMAIN fs THEN "theme"
                    ELSE "blank")
    /\ Chosen =>
        IF DeckGiven
        THEN dest = args.deck
        ELSE dest.parent = args.outdir /\ dest.suffix = ".pptx"
    /\ pc = "done" =>
        /\ fs[dest] = NewDocument
        /\ prs.base = "deck" => prs.slides = Append(Slides(prior), "new")
        /\ prs.base # "deck" => prs.slides = <<"new">>

\* A --deck that did not exist: the slide went onto the theme and the
\* result was saved at the --deck path.
C5_Witness ==
    /\ pc = "done"
    /\ DeckGiven
    /\ prs.base = "theme"
    /\ prior = Absent
    /\ dest = args.deck
    /\ fs[args.deck] = Serialize(<<"new">>)

(***************************************************************************)
(* The claim about the file name (under SpecName)                          *)
(***************************************************************************)
Kept(c) == c \in AlnumChars \cup {" ", "_", "-"}
CharAt(s, i) == SubSeq(s, i, i)

\* stem is title sanitized character by character and cut to MaxNameLen.
SanitizedInto(title, stem) ==
    /\ Len(stem) = (IF Len(title) <= MaxNameLen THEN Len(title) ELSE MaxNameLen)
    /\ \A i \in 1..Len(stem) :
        CharAt(stem, i) = (IF Kept(CharAt(title, i)) THEN CharAt(title, i) ELSE "_")

OnlyWhitespace(title) == \A i \in 1..Len(title) : CharAt(title, i) \in {" ", "\t", "\n"}

NameChosen == pc = "save" /\ ~DeckGiven

\* C6: the stem is the sanitized title cut to 80 characters, and "paper"
\* only if the sanitized title is empty; the name is the stem plus ".pptx".
C6_PaperOnlyIfEmpty ==
    NameChosen =>
        /\ dest.suffix = ".pptx"
        /\ IF JoinSafe(args.title) = "" THEN dest.stem = "paper"
           ELSE SanitizedInto(args.title, dest.stem)

\* C6, amended: the stem is "paper" if the title is empty or holds only
\* whitespace, and otherwise the title sanitized character by character
\* and cut to 80 characters; the name is the stem plus ".pptx".
C6_PaperIfBlank ==
    NameChosen =>
        /\ dest.suffix = ".pptx"
        /\ IF OnlyWhitespace(args.title) THEN dest.stem = "paper"
           ELSE SanitizedInto(args.title, dest.stem)
        /\ args.title = "A/B: Test?" => dest.stem = "A_B_ Test_"

\* A title longer than 80 characters with characters to replace.
C6_Witness ==
    /\ NameChosen
    /\ Len(args.title) > MaxNameLen
    /\ CharAt(args.title, 1) = "/"
    /\ CharAt(args.title, MaxNameLen) = "/"
    /\ Len(dest.stem) = MaxNameLen
    /\ CharAt(dest.stem, MaxNameLen) = "_"

=============================================================================
